---- MODULE Spec2Model ----
(***************************************************************************)
(* The data model of the application (app/models.py) and its API error     *)
(* helper (app/api/errors.py) as state machines over the relational store. *)
(* Every query of the code goes through db.session, which flushes pending  *)
(* writes before it reads, so each method sees the rows written by the     *)
(* calls before it: the store is modelled as the tables themselves.        *)
(***************************************************************************)
EXTENDS Integers, Sequences, FiniteSets, TLC

VARIABLES
    followers,      \* the association table: rows per (follower_id, followed_id)
    posts,          \* the post table: rows [id, user_id, timestamp]
    now,            \* the clock read by time() and datetime.now()
    messages,       \* the message table: rows [id, sender_id, recipient_id, timestamp]
    last_message_read_time,   \* per user: Optional[datetime], the watermark
    notifications,  \* the notification table: rows [id, name, user_id, timestamp, payload_json]
    pc,             \* per request: where it is inside add_notification
    calls,          \* the number of add_notification calls started
    overlapped,     \* the (user, name) pairs two calls were in flight for at once
    tokens,         \* the reset tokens get_reset_password_token has issued
    advances,       \* the number of times the clock has been advanced
    last            \* the last call made and what it returned

vars == <<followers, posts, now, messages, last_message_read_time,
          notifications, pc, calls, overlapped, tokens, advances, last>>

notification_vars == <<notifications, pc, calls, overlapped>>

token_vars == <<tokens, advances>>

\* ---------------------------------------------------------------- bounds

NumUsers == 2
MaxPosts == 2
MaxMessages == 2
MaxCalls == 3
MaxTokens == 1
MaxAdvances == 3

\* ------------------------------------------------------------ primitives

Users == 1..NumUsers
Pairs == Users \X Users

\* Optional[T]: None, or one value.
None == <<>>
Some(x) == <<x>>

RECURSIVE Sum(_, _)
Sum(f, S) ==
    IF S = {} THEN 0
    ELSE LET x == CHOOSE y \in S : TRUE IN f[x] + Sum(f, S \ {x})

\* ------------------------------------------------- the followers table

EmptyFollowers == [p \in Pairs |-> 0]

\* INSERT INTO followers: both columns form the primary key, so a second row
\* for the same pair is refused by the store (IntegrityError).
insert_followers(t, follower_id, followed_id) ==
    IF t[<<follower_id, followed_id>>] > 0
    THEN [raised |-> TRUE, table |-> t]
    ELSE [raised |-> FALSE,
          table |-> [t EXCEPT ![<<follower_id, followed_id>>] = @ + 1]]

\* DELETE FROM followers WHERE follower_id = .. AND followed_id = ..: the unit
\* of work expects to delete one row (StaleDataError when none matched).
delete_followers(t, follower_id, followed_id) ==
    IF t[<<follower_id, followed_id>>] = 0
    THEN [raised |-> TRUE, table |-> t]
    ELSE [raised |-> FALSE,
          table |-> [t EXCEPT ![<<follower_id, followed_id>>] = 0]]

\* User.following: the users joined through followers.followed_id, for the rows
\* whose follower_id is self; one result row per table row.
following_select(t, self) == [u \in Users |-> t[<<self, u>>]]

\* User.followers: the users joined through followers.follower_id, for the rows
\* whose followed_id is self.
followers_select(t, self) == [u \in Users |-> t[<<u, self>>]]

\* The mutation of followers_count below: the count taken on the other side
\* of the association.
followers_count_following_side(t, self) == Sum(following_select(t, self), Users)

is_following(t, self, user) ==
    \E u \in Users : following_select(t, self)[u] > 0 /\ u = user

followers_count(t, self) == Sum(followers_select(t, self), Users)

following_count(t, self) == Sum(following_select(t, self), Users)

\* The mutation of follow below: the edge added without the is_following test.
follow_unguarded(t, self, user) == insert_followers(t, self, user)

follow(t, self, user) ==
    IF ~is_following(t, self, user)
    THEN insert_followers(t, self, user)
    ELSE [raised |-> FALSE, table |-> t]

\* The mutation of unfollow below: the edge removed from the other user's
\* collection.
unfollow_reversed(t, self, user) ==
    IF is_following(t, self, user)
    THEN delete_followers(t, user, self)
    ELSE [raised |-> FALSE, table |-> t]

unfollow(t, self, user) ==
    IF is_following(t, self, user)
    THEN delete_followers(t, self, user)
    ELSE [raised |-> FALSE, table |-> t]

Follow(self, user) ==
    LET r == follow(followers, self, user) IN
    /\ followers' = r.table
    /\ last' = [op |-> "follow", self |-> self, user |-> user,
                raised |-> r.raised,
                was_following |-> is_following(followers, self, user),
                count_before |-> following_count(followers, self),
                after_follow |-> FALSE]
    /\ UNCHANGED <<posts, now, messages, last_message_read_time,
                   notification_vars, token_vars>>

Unfollow(self, user) ==
    LET r == unfollow(followers, self, user) IN
    /\ followers' = r.table
    /\ last' = [op |-> "unfollow", self |-> self, user |-> user,
                raised |-> r.raised,
                was_following |-> is_following(followers, self, user),
                count_before |-> following_count(followers, self),
                after_follow |-> /\ last.op = "follow"
                                 /\ last.self = self
                                 /\ last.user = user
                                 /\ ~last.was_following]
    /\ UNCHANGED <<posts, now, messages, last_message_read_time,
                   notification_vars, token_vars>>

NoCall == [op |-> "none"]

\* Two requests are served at a time.
Requests == {"r1", "r2"}

Idle == [at |-> "idle"]

\* The store after db.create_all(), at the time the application starts.
InitStore ==
    /\ followers = EmptyFollowers
    /\ posts = {}
    /\ now = 1
    /\ messages = {}
    /\ last_message_read_time = [u \in Users |-> None]
    /\ last = NoCall
    /\ notifications = {}
    /\ pc = [r \in Requests |-> Idle]
    /\ calls = 0
    /\ overlapped = {}
    /\ tokens = {}
    /\ advances = 0

NextGraph ==
    \E a \in Users, b \in Users : Follow(a, b) \/ Unfollow(a, b)

SpecGraph == InitStore /\ [][NextGraph]_vars

\* ------------------------------------------------------ posts and the feed

\* A Post row; id is the autoincremented primary key, timestamp defaults to
\* the clock at creation.
new_post(P, user_id, timestamp) ==
    [id |-> Cardinality(P) + 1, user_id |-> user_id, timestamp |-> timestamp]

\* .join(Post.author.of_type(Author)): each post with its author.
join_author(P) ==
    {[post |-> x[1], author |-> x[2]] :
        x \in {y \in P \X Users : y[1].user_id = y[2]}}

\* .join(Author.followers.of_type(Follower), isouter=True): one row per
\* follower row of the author, and one row with no follower for an author
\* nobody follows.
join_followers_outer(t, R) ==
    UNION {
        IF \A f \in Users : followers_select(t, r.author)[f] = 0
        THEN {[post |-> r.post, author |-> r.author, follower |-> None, k |-> 1]}
        ELSE {[post |-> r.post, author |-> r.author, follower |-> Some(f), k |-> k] :
                <<f, k>> \in {z \in Users \X (1..NumUsers) :
                                z[2] <= followers_select(t, r.author)[z[1]]}}
        : r \in R}

\* .where(sa.or_(Follower.id == self.id, Author.id == self.id)); a comparison
\* with the NULL follower is not true.
where_follower_or_author(R, self) ==
    {r \in R : r.follower = Some(self) \/ r.author = self}

\* The mutation of group_by_Post below: no GROUP BY.
group_by_nothing(R) == R

\* .group_by(Post): one row per post.
group_by_Post(R) ==
    {[post |-> p, author |-> p.user_id, follower |-> None, k |-> 1] :
        p \in {r.post : r \in R}}

\* .order_by(Post.timestamp.desc()): the rows by decreasing timestamp; rows of
\* equal timestamp come in any order, so this is the set of possible results.
RECURSIVE order_by_timestamp_desc(_)
order_by_timestamp_desc(R) ==
    IF R = {} THEN {<<>>}
    ELSE UNION {
        {<<r.post>> \o rest : rest \in order_by_timestamp_desc(R \ {r})}
        : r \in {x \in R : \A y \in R : y.post.timestamp <= x.post.timestamp}}

\* The possible results of executing the query following_posts() builds.
following_posts(t, P, self) ==
    order_by_timestamp_desc(
        group_by_Post(
            where_follower_or_author(
                join_followers_outer(t, join_author(P)), self)))

\* A user writes a post; the clock has advanced by dt since the last write.
CreatePost(user, dt) ==
    /\ Cardinality(posts) < MaxPosts
    /\ now' = now + dt
    /\ posts' = posts \cup {new_post(posts, user, now')}
    /\ UNCHANGED <<followers, messages, last_message_read_time, notification_vars, token_vars, last>>

\* Any follow graph the store can hold: at most one row per pair.
InitFeed ==
    /\ followers \in [Pairs -> 0..1]
    /\ posts = {}
    /\ now = 1
    /\ messages = {}
    /\ last_message_read_time = [u \in Users |-> None]
    /\ last = NoCall
    /\ notifications = {}
    /\ pc = [r \in Requests |-> Idle]
    /\ calls = 0
    /\ overlapped = {}
    /\ tokens = {}
    /\ advances = 0

NextFeed ==
    \E u \in Users, dt \in 0..1 : CreatePost(u, dt)

SpecFeed == InitFeed /\ [][NextFeed]_vars

\* ------------------------------------------------------------- messages

\* datetime(1900, 1, 1); the clock counts from it.
Epoch1900 == 0

\* A Message row; timestamp defaults to the clock at creation.
new_message(M, sender_id, recipient_id, timestamp) ==
    [id |-> Cardinality(M) + 1, sender_id |-> sender_id,
     recipient_id |-> recipient_id, timestamp |-> timestamp]

\* The mutation of unread_message_count below: >= in place of >.
unread_message_count_inclusive(M, read_time, self) ==
    LET last_read_time ==
            IF read_time[self] # None THEN read_time[self][1] ELSE Epoch1900
        query == {m \in M : /\ m.recipient_id = self
                            /\ m.timestamp >= last_read_time}
    IN  Cardinality(query)

unread_message_count(M, read_time, self) ==
    LET last_read_time ==
            IF read_time[self] # None THEN read_time[self][1] ELSE Epoch1900
        query == {m \in M : /\ m.recipient_id = self
                            /\ m.timestamp > last_read_time}
    IN  Cardinality(query)

\* A user sends a message; the clock has advanced since the last write.
SendMessage(sender, recipient) ==
    /\ Cardinality(messages) < MaxMessages
    /\ now' = now + 1
    /\ messages' = messages \cup {new_message(messages, sender, recipient, now')}
    /\ UNCHANGED <<followers, posts, last_message_read_time, notification_vars, token_vars, last>>

\* The user opens their messages: the watermark moves to the current time.
MarkMessagesRead(user) ==
    /\ last_message_read_time' =
            [last_message_read_time EXCEPT ![user] = Some(now)]
    /\ UNCHANGED <<followers, posts, now, messages, notification_vars, token_vars, last>>

UnreadMessageCount(user) ==
    /\ last' = [op |-> "unread_message_count", self |-> user,
                result |-> unread_message_count(
                                messages, last_message_read_time, user)]
    /\ UNCHANGED <<followers, posts, now, messages, last_message_read_time,
                   notification_vars, token_vars>>

NextMessages ==
    \/ \E s \in Users, r \in Users : SendMessage(s, r)
    \/ \E u \in Users : MarkMessagesRead(u)
    \/ \E u \in Users : UnreadMessageCount(u)

SpecMessages == InitStore /\ [][NextMessages]_vars

\* ------------------------------------------------------------------ json

\* Python values that JSON represents: None, bool, int, str, list and dict
\* with str keys. A str is its characters; a dict is its items in order,
\* key, value, key, value.
PyNone == [t |-> "none", b |-> FALSE, i |-> 0, s |-> <<>>, items |-> <<>>]
PyBool(b) == [t |-> "bool", b |-> b, i |-> 0, s |-> <<>>, items |-> <<>>]
PyInt(i) == [t |-> "int", b |-> FALSE, i |-> i, s |-> <<>>, items |-> <<>>]
PyStr(s) == [t |-> "str", b |-> FALSE, i |-> 0, s |-> s, items |-> <<>>]
PyList(items) == [t |-> "list", b |-> FALSE, i |-> 0, s |-> <<>>, items |-> items]
PyDict(items) == [t |-> "dict", b |-> FALSE, i |-> 0, s |-> <<>>, items |-> items]

Digits == <<"0", "1", "2", "3", "4", "5", "6", "7", "8", "9">>

IsDigit(c) == \E d \in 1..Len(Digits) : Digits[d] = c

DigitValue(c) == (CHOOSE d \in 1..Len(Digits) : Digits[d] = c) - 1

RECURSIVE encode_int(_)
encode_int(n) ==
    IF n < Len(Digits) THEN <<Digits[n + 1]>>
    ELSE encode_int(n \div Len(Digits)) \o <<Digits[(n % Len(Digits)) + 1]>>

RECURSIVE encode_chars(_)
encode_chars(s) ==
    IF s = <<>> THEN <<>>
    ELSE (IF Head(s) \in {"\"", "\\"} THEN <<"\\", Head(s)>> ELSE <<Head(s)>>)
            \o encode_chars(Tail(s))

\* json.dumps(data): the text, character by character, with the default
\* separators ", " and ": ".
RECURSIVE json_dumps(_)
RECURSIVE dumps_items(_, _)
json_dumps(v) ==
    CASE v.t = "none" -> <<"n", "u", "l", "l">>
      [] v.t = "bool" -> IF v.b THEN <<"t", "r", "u", "e">>
                                ELSE <<"f", "a", "l", "s", "e">>
      [] v.t = "int" -> encode_int(v.i)
      [] v.t = "str" -> <<"\"">> \o encode_chars(v.s) \o <<"\"">>
      [] v.t = "list" -> <<"[">> \o dumps_items(v.items, FALSE) \o <<"]">>
      [] v.t = "dict" -> <<"{">> \o dumps_items(v.items, TRUE) \o <<"}">>

dumps_items(items, keyed) ==
    IF items = <<>> THEN <<>>
    ELSE IF keyed
    THEN json_dumps(items[1]) \o <<":", " ">> \o json_dumps(items[2])
            \o (IF Len(items) > 2 THEN <<",", " ">> ELSE <<>>)
            \o dumps_items(SubSeq(items, 3, Len(items)), TRUE)
    ELSE json_dumps(items[1])
            \o (IF Len(items) > 1 THEN <<",", " ">> ELSE <<>>)
            \o dumps_items(Tail(items), FALSE)

\* json.loads(text): a scan from position i giving the value read and the
\* position after it.
RECURSIVE parse_int(_, _, _)
parse_int(s, i, acc) ==
    IF i <= Len(s) /\ IsDigit(s[i])
    THEN parse_int(s, i + 1, acc * Len(Digits) + DigitValue(s[i]))
    ELSE [v |-> PyInt(acc), i |-> i]

RECURSIVE parse_string(_, _, _)
parse_string(s, i, acc) ==
    IF s[i] = "\"" THEN [v |-> PyStr(acc), i |-> i + 1]
    ELSE IF s[i] = "\\" THEN parse_string(s, i + 2, Append(acc, s[i + 1]))
    ELSE parse_string(s, i + 1, Append(acc, s[i]))

RECURSIVE parse_value(_, _)
RECURSIVE parse_items(_, _, _, _)
parse_value(s, i) ==
    CASE s[i] = "n" -> [v |-> PyNone, i |-> i + 4]
      [] s[i] = "t" -> [v |-> PyBool(TRUE), i |-> i + 4]
      [] s[i] = "f" -> [v |-> PyBool(FALSE), i |-> i + 5]
      [] s[i] = "\"" -> parse_string(s, i + 1, <<>>)
      [] s[i] = "[" -> parse_items(s, i + 1, <<>>, "]")
      [] s[i] = "{" -> parse_items(s, i + 1, <<>>, "}")
      [] OTHER -> parse_int(s, i, 0)

parse_items(s, i, acc, close) ==
    IF s[i] = close
    THEN [v |-> IF close = "]" THEN PyList(acc) ELSE PyDict(acc), i |-> i + 1]
    ELSE IF s[i] \in {",", ":"} THEN parse_items(s, i + 2, acc, close)
    ELSE LET r == parse_value(s, i)
         IN  parse_items(s, r.i, Append(acc, r.v), close)

json_loads(s) == parse_value(s, 1).v

\* The payloads the application stores, values JSON represents: a count, a
\* text with a quote in it, and a record holding a list.
Payloads ==
    { PyInt(10),
      PyStr(<<"a", "\"">>),
      PyDict(<<PyStr(<<"k">>), PyList(<<PyBool(TRUE), PyNone>>)>>) }

\* --------------------------------------------------------- notifications

Names == {"unread_message_count", "task_progress"}

\* Notification.id: the store gives a new row the next integer key.
next_notification_id(N) ==
    IF N = {} THEN 1
    ELSE (CHOOSE m \in {n.id : n \in N} : \A n \in N : n.id <= m) + 1

\* A mutation of notifications_delete below: the rows of that name of
\* every user.
notifications_delete_any_user(N, self, name) ==
    {n \in N : ~(n.name = name)}

\* A mutation of notifications_delete below: the comparison of the name
\* inverted.
notifications_delete_other_names(N, self, name) ==
    {n \in N : ~(n.user_id = self /\ n.name # name)}

\* A mutation of notifications_delete below: the statement built and never
\* executed.
notifications_delete_not_executed(N, self, name) == N

\* self.notifications.delete().where(Notification.name == name): DELETE of
\* the rows whose user_id is self and whose name is name.
notifications_delete(N, self, name) ==
    {n \in N : ~(n.user_id = self /\ n.name = name)}

\* Notification(name=name, payload_json=json.dumps(data), user=self) and
\* db.session.add(n).
notifications_insert(N, self, name, data, timestamp) ==
    N \cup {[id |-> next_notification_id(N), name |-> name,
             user_id |-> self, timestamp |-> timestamp,
             payload_json |-> json_dumps(data)]}

\* Notification.get_data
get_data(n) == json_loads(n.payload_json)

\* add_notification called alone: the delete and the insert with no other
\* call between them.
AddNotification(self, name, data) ==
    /\ calls < MaxCalls
    /\ \A r \in Requests : pc[r] = Idle
    /\ calls' = calls + 1
    /\ notifications' =
            notifications_insert(
                notifications_delete(notifications, self, name),
                self, name, data, now)
    /\ last' = [op |-> "add_notification", self |-> self, name |-> name,
                data |-> data,
                replaced |-> {get_data(n) : n \in
                    {m \in notifications : m.user_id = self /\ m.name = name}}]
    /\ UNCHANGED <<followers, posts, now, messages, last_message_read_time,
                   pc, overlapped, token_vars>>

\* A request enters add_notification and executes the DELETE.
AddNotificationDelete(r, self, name, data) ==
    /\ calls < MaxCalls
    /\ pc[r] = Idle
    /\ calls' = calls + 1
    /\ notifications' = notifications_delete(notifications, self, name)
    /\ pc' = [pc EXCEPT ![r] = [at |-> "insert", self |-> self,
                                name |-> name, data |-> data]]
    /\ overlapped' =
            IF \E q \in Requests \ {r} :
                    /\ pc[q].at = "insert"
                    /\ pc[q].self = self
                    /\ pc[q].name = name
            THEN overlapped \cup {<<self, name>>}
            ELSE overlapped
    /\ UNCHANGED <<followers, posts, now, messages, last_message_read_time,
                   token_vars, last>>

\* The request adds its new row and returns.
AddNotificationInsert(r) ==
    /\ pc[r].at = "insert"
    /\ notifications' =
            notifications_insert(
                notifications, pc[r].self, pc[r].name, pc[r].data, now)
    /\ pc' = [pc EXCEPT ![r] = Idle]
    /\ last' = [op |-> "add_notification", self |-> pc[r].self,
                name |-> pc[r].name, data |-> pc[r].data, replaced |-> {}]
    /\ UNCHANGED <<followers, posts, now, messages, last_message_read_time,
                   calls, overlapped, token_vars>>

NextNotifications ==
    \E u \in Users, name \in Names, data \in Payloads :
        AddNotification(u, name, data)

\* The calls one at a time.
SpecNotifications == InitStore /\ [][NextNotifications]_vars

NextInterleaved ==
    \/ \E r \in Requests, u \in Users, name \in Names, data \in Payloads :
            AddNotificationDelete(r, u, name, data)
    \/ \E r \in Requests : AddNotificationInsert(r)

\* The calls of two requests interleaved statement by statement.
SpecInterleaved == InitStore /\ [][NextInterleaved]_vars

\* ------------------------------------------------- password reset tokens

\* Config.SECRET_KEY when the environment sets none.
SECRET_KEY == "password1"

\* expires_in=600
DefaultExpiresIn == 600

\* The HS256 signature of a payload under a key: equal for the same key and
\* payload only.
hs256(key, payload) == [key |-> key, payload |-> payload]

\* jwt.encode(payload, key, algorithm='HS256')
jwt_encode(payload, key) ==
    [kind |-> "jwt", payload |-> payload, sig |-> hs256(key, payload)]

NoPayload == [reset_password |-> None, exp |-> 0]

\* A string that is no token.
Malformed ==
    [kind |-> "malformed", payload |-> NoPayload, sig |-> hs256("", NoPayload)]

\* jwt.decode(token, key, algorithms=['HS256']): the payload, or the
\* exception raised: the format first, then the signature, then exp against
\* the clock. Time is in whole seconds, the resolution at which the library
\* compares exp; a token is expired from the second exp on.
jwt_decode(token, key, time) ==
    IF token.kind # "jwt"
    THEN [exc |-> "DecodeError", payload |-> NoPayload]
    ELSE IF token.sig # hs256(key, token.payload)
    THEN [exc |-> "InvalidSignatureError", payload |-> NoPayload]
    ELSE IF token.payload.exp <= time
    THEN [exc |-> "ExpiredSignatureError", payload |-> NoPayload]
    ELSE [exc |-> "none", payload |-> token.payload]

\* User.get_reset_password_token
get_reset_password_token(self, expires_in, time) ==
    jwt_encode([reset_password |-> Some(self), exp |-> time + expires_in],
               SECRET_KEY)

\* db.session.get(User, id)
session_get_User(id) == IF id \in Users THEN Some(id) ELSE None

\* The mutation of except_clause below: except jwt.ExpiredSignatureError.
except_expired_only(exc) == exc = "ExpiredSignatureError"

\* The bare except: of verify_reset_password_token catches every exception.
except_clause(exc) == TRUE

\* User.verify_reset_password_token: the user returned, or the exception
\* that leaves the call.
verify_reset_password_token(token, time) ==
    LET decoded == jwt_decode(token, SECRET_KEY, time)
        exc == IF decoded.exc # "none" THEN decoded.exc
               ELSE IF decoded.payload.reset_password = None THEN "KeyError"
               ELSE "none"
    IN  IF exc # "none"
        THEN IF except_clause(exc)
             THEN [raised |-> "none", user |-> None]
             ELSE [raised |-> exc, user |-> None]
        ELSE [raised |-> "none",
              user |-> session_get_User(decoded.payload.reset_password[1])]

\* What a client can present for an issued token: the token, the token with
\* its user or its expiry changed, the payload signed with another key, a
\* token of the application without the reset_password claim, and a string
\* that is no token.
Presentable(t) ==
    {t, Malformed,
     jwt_encode(t.payload, "guess"),
     jwt_encode([t.payload EXCEPT !.reset_password = None], SECRET_KEY),
     [t EXCEPT !.payload.exp = @ + DefaultExpiresIn]}
    \cup {[t EXCEPT !.payload.reset_password = Some(u)] :
            u \in Users \ {t.payload.reset_password[1]}}

GetResetPasswordToken(self, expires_in) ==
    /\ Cardinality(tokens) < MaxTokens
    /\ tokens' = tokens \cup {get_reset_password_token(self, expires_in, now)}
    /\ UNCHANGED <<followers, posts, now, messages, last_message_read_time,
                   notification_vars, advances, last>>

\* Time passes.
Advance(d) ==
    /\ advances < MaxAdvances
    /\ advances' = advances + 1
    /\ now' = now + d
    /\ UNCHANGED <<followers, posts, messages, last_message_read_time,
                   notification_vars, tokens, last>>

VerifyResetPasswordToken(token) ==
    /\ last' = [op |-> "verify_reset_password_token", token |-> token,
                at |-> now, issued |-> token \in tokens,
                result |-> verify_reset_password_token(token, now)]
    /\ UNCHANGED <<followers, posts, now, messages, last_message_read_time,
                   notification_vars, token_vars>>

NextTokens ==
    \/ \E u \in Users, e \in {1, DefaultExpiresIn} : GetResetPasswordToken(u, e)
    \/ \E d \in {1, DefaultExpiresIn - 1} : Advance(d)
    \/ \E t \in tokens : \E p \in Presentable(t) : VerifyResetPasswordToken(p)

SpecTokens == InitStore /\ [][NextTokens]_vars

\* ------------------------------------------------------ api error helper

\* werkzeug.http.HTTP_STATUS_CODES, the codes an API answers with.
HTTP_STATUS_CODES ==
    [c \in {200, 201, 202, 204, 301, 302, 304, 400, 401, 403, 404, 405, 409,
            410, 415, 422, 429, 500, 501, 502, 503} |->
        CASE c = 200 -> "OK"
          [] c = 201 -> "Created"
          [] c = 202 -> "Accepted"
          [] c = 204 -> "No Content"
          [] c = 301 -> "Moved Permanently"
          [] c = 302 -> "Found"
          [] c = 304 -> "Not Modified"
          [] c = 400 -> "Bad Request"
          [] c = 401 -> "Unauthorized"
          [] c = 403 -> "Forbidden"
          [] c = 404 -> "Not Found"
          [] c = 405 -> "Method Not Allowed"
          [] c = 409 -> "Conflict"
          [] c = 410 -> "Gone"
          [] c = 415 -> "Unsupported Media Type"
          [] c = 422 -> "Unprocessable Entity"
          [] c = 429 -> "Too Many Requests"
          [] c = 500 -> "Internal Server Error"
          [] c = 501 -> "Not Implemented"
          [] c = 502 -> "Bad Gateway"
          [] c = 503 -> "Service Unavailable"]

\* The status codes a caller passes: the known ones, two the table does not
\* hold, and None (an HTTPException without a code).
StatusCodes ==
    {Some(c) : c \in DOMAIN HTTP_STATUS_CODES \cup {299, 799}} \cup {None}

\* The messages a caller passes: None, the empty string and two texts.
Messages ==
    {None, Some(""), Some("must include username"), Some("invalid id")}

\* The mutation of truthy below: "is not None".
is_not_None(x) == x # None

\* Python's truth of an Optional[str]: None and "" are false.
truthy(x) == x # None /\ x[1] # ""

\* error_resposne(status_code, message=None)
error_resposne(status_code, message) ==
    LET payload == [error |->
                        IF status_code # None
                           /\ status_code[1] \in DOMAIN HTTP_STATUS_CODES
                        THEN HTTP_STATUS_CODES[status_code[1]]
                        ELSE "Unknown error"]
    IN  IF truthy(message)
        THEN <<[error |-> payload.error, message |-> message[1]], status_code>>
        ELSE <<payload, status_code>>

\* bad_request(message)
bad_request(message) == error_resposne(Some(400), message)

\* handle_exception(e), e an HTTPException; only e.code is read.
handle_exception(e) == error_resposne(e.code, None)

ErrorResponse(status_code, message) ==
    /\ last' = [op |-> "error_resposne", status_code |-> status_code,
                message |-> message,
                response |-> error_resposne(status_code, message)]
    /\ UNCHANGED <<followers, posts, now, messages, last_message_read_time,
                   notification_vars, token_vars>>

BadRequest(message) ==
    /\ last' = [op |-> "bad_request", status_code |-> Some(400),
                message |-> message, response |-> bad_request(message)]
    /\ UNCHANGED <<followers, posts, now, messages, last_message_read_time,
                   notification_vars, token_vars>>

HandleException(e) ==
    /\ last' = [op |-> "handle_exception", status_code |-> e.code,
                message |-> None, response |-> handle_exception(e)]
    /\ UNCHANGED <<followers, posts, now, messages, last_message_read_time,
                   notification_vars, token_vars>>

NextErrors ==
    \/ \E c \in StatusCodes, m \in Messages : ErrorResponse(c, m)
    \/ \E m \in Messages : BadRequest(m)
    \/ \E c \in StatusCodes : HandleException([code |-> c])

SpecErrors == InitStore /\ [][NextErrors]_vars

\* ------------------------------------------------------ the follow graph

EdgePresent(t, a, b) == t[<<a, b>>] >= 1

NoDuplicateEdge(t) == \A p \in Pairs : t[p] <= 1

\* C3: after A.follow(B) (A = B included) A.is_following(B) is true; a follow
\* of a user already followed completes and leaves following_count() of A and
\* the whole edge table as they were; no (follower, followed) pair is ever
\* held twice.
C3_FollowIdempotent ==
    [][\A a \in Users, b \in Users :
          Follow(a, b) =>
            /\ ~last'.raised
            /\ is_following(followers', a, b)
            /\ EdgePresent(followers', a, b)
            /\ NoDuplicateEdge(followers')
            /\ is_following(followers, a, b) =>
                 /\ followers' = followers
                 /\ following_count(followers', a)
                      = following_count(followers, a)]_vars

\* A second follow of the same user has just been made, self-follow included.
C3_Witness ==
    /\ last.op = "follow"
    /\ last.was_following
    /\ \E a \in Users : is_following(followers, a, a)

\* C4: when A does not follow B, A.follow(B) and then A.unfollow(B) leave
\* is_following(B) false and following_count() of A at the value it had
\* before the follow; A.unfollow(B) when A does not follow B changes nothing.
C4_FollowUnfollowRestores ==
    [][\A a \in Users, b \in Users :
          Unfollow(a, b) =>
            /\ ~last'.raised
            /\ ( /\ last.op = "follow"
                 /\ last.self = a
                 /\ last.user = b
                 /\ ~last.was_following )
               => /\ ~is_following(followers', a, b)
                  /\ following_count(followers', a) = last.count_before
            /\ ~is_following(followers, a, b) => followers' = followers]_vars

\* An unfollow has just undone the follow made right before it, by a user
\* who follows another user as well.
C4_Witness ==
    /\ last.op = "unfollow"
    /\ last.after_follow
    /\ last.was_following
    /\ following_count(followers, last.self) = 1

\* C10: followers_count() of B is the number of users A with
\* A.is_following(B), following_count() of A is the number of users B with
\* A.is_following(B), and follow / unfollow of (A, B) change no other edge.
CountsAgree(t) ==
    \A u \in Users :
        /\ followers_count(t, u)
             = Cardinality({a \in Users : is_following(t, a, u)})
        /\ following_count(t, u)
             = Cardinality({b \in Users : is_following(t, u, b)})

C10_DirectionsAgree ==
    /\ CountsAgree(followers)
    /\ [][/\ CountsAgree(followers')
          /\ \A a \in Users, b \in Users :
                (Follow(a, b) \/ Unfollow(a, b)) =>
                    \A p \in Pairs \ {<<a, b>>} :
                        followers'[p] = followers[p]]_vars

\* After an unfollow, a user has two followers and follows one user.
C10_Witness ==
    /\ last.op = "unfollow"
    /\ last.was_following
    /\ \E u \in Users :
          /\ followers_count(followers, u) = 2
          /\ following_count(followers, u) = 1


\* ------------------------------------------------------------- the feed

Range(s) == {s[i] : i \in 1..Len(s)}

\* C5: following_posts() of U returns exactly the posts whose author is U or
\* is followed by U, each post once, in non-increasing timestamp order.
C5_FollowingPosts ==
    \A u \in Users :
        \A s \in following_posts(followers, posts, u) :
            /\ Range(s) = {p \in posts :
                            \/ p.user_id = u
                            \/ EdgePresent(followers, u, p.user_id)}
            /\ \A i \in 1..Len(s), j \in 1..Len(s) : s[i] = s[j] => i = j
            /\ \A i \in 1..Len(s), j \in 1..Len(s) :
                    i < j => s[i].timestamp >= s[j].timestamp

\* A user who follows themself and has another follower has written two posts
\* at different times, and the feed returns both.
C5_Witness ==
    \E u \in Users :
        /\ EdgePresent(followers, u, u)
        /\ followers_count(followers, u) >= 2
        /\ \E s \in following_posts(followers, posts, u) :
              /\ Len(s) = 2
              /\ s[1].user_id = u
              /\ s[2].user_id = u
              /\ s[1].timestamp > s[2].timestamp

\* ------------------------------------------------------------- messages

Received(u) == {m \in messages : m.recipient_id = u}

\* C6: unread_message_count() of U is the number of messages to U with a
\* timestamp strictly after U's watermark, and the number of all messages to
\* U when the watermark is unset; messages U sent or that go to others are
\* not counted; the call does not change the watermark.
C6_UnreadCount ==
    /\ [](\A u \in Users :
            LET n == unread_message_count(messages, last_message_read_time, u)
                w == last_message_read_time[u]
            IN  /\ w = None => n = Cardinality(Received(u))
                /\ w # None =>
                     n = Cardinality({m \in Received(u) : m.timestamp > w[1]}))
    /\ [][\A u \in Users :
            UnreadMessageCount(u) =>
                /\ last_message_read_time' = last_message_read_time
                /\ messages' = messages
                /\ last'.result =
                     unread_message_count(messages', last_message_read_time', u)
         ]_vars

\* The count was just taken for a user who sent a message, received one at
\* the time of the watermark and one after it: it is 1.
C6_Witness ==
    /\ last.op = "unread_message_count"
    /\ last.result = 1
    /\ last_message_read_time[last.self] # None
    /\ \E m \in messages : m.sender_id = last.self
    /\ \E m \in Received(last.self) :
            m.timestamp = last_message_read_time[last.self][1]
    /\ \E m \in Received(last.self) :
            m.timestamp > last_message_read_time[last.self][1]

\* --------------------------------------------------------- notifications

NotificationsOf(N, u, name) == {n \in N : n.user_id = u /\ n.name = name}

\* C1: with the calls made one at a time, every (user, name) has at most one
\* notification, and after U.add_notification(name, d) the one notification
\* of (U, name) gives d from get_data(), whatever was stored before.
C1_OnePerName ==
    /\ \A u \in Users, name \in Names :
            Cardinality(NotificationsOf(notifications, u, name)) <= 1
    /\ last.op = "add_notification" =>
            /\ Cardinality(
                 NotificationsOf(notifications, last.self, last.name)) = 1
            /\ \A n \in NotificationsOf(notifications, last.self, last.name) :
                    get_data(n) = last.data

\* A second call with the same name has replaced a notification that held
\* other data.
C1_Witness ==
    /\ last.op = "add_notification"
    /\ last.replaced # {}
    /\ last.data \notin last.replaced
    /\ \E n \in notifications : get_data(n) = last.data
    /\ last.data = PyDict(<<PyStr(<<"k">>), PyList(<<PyBool(TRUE), PyNone>>)>>)

Duplicated(u, name) ==
    Cardinality(NotificationsOf(notifications, u, name)) >= 2

\* C2: with the delete and the insert of two requests interleaved, two
\* notifications of one (user, name) can be held at once, and only for a
\* (user, name) that two calls were in flight for at the same time: calls
\* that do not overlap leave no duplicate.
C2_DuplicateOnlyWhenInterleaved ==
    \A u \in Users, name \in Names :
        Duplicated(u, name) => <<u, name>> \in overlapped

\* Two notifications of one (user, name) are held.
C2_Witness ==
    \E u \in Users, name \in Names :
        /\ Duplicated(u, name)
        /\ \A r \in Requests : pc[r] = Idle

\* C9: U.add_notification(name, data) leaves every notification of another
\* user and every notification of U with another name as it was, removes
\* the notifications of (U, name) and adds exactly one.
C9_AddNotificationFrame ==
    [][\A u \in Users, name \in Names, data \in Payloads :
          AddNotification(u, name, data) =>
            /\ \A n \in notifications :
                    (n.user_id # u \/ n.name # name) => n \in notifications'
            /\ \A n \in notifications' :
                    (n.user_id # u \/ n.name # name) => n \in notifications
            /\ Cardinality(notifications') =
                    Cardinality(notifications)
                    - Cardinality(NotificationsOf(notifications, u, name)) + 1
            /\ Cardinality(NotificationsOf(notifications', u, name)) = 1]_vars

\* A call has replaced a notification while another user holds one of the
\* same name.
C9_Witness ==
    /\ last.op = "add_notification"
    /\ last.replaced # {}
    /\ \E n \in notifications : n.user_id # last.self /\ n.name = last.name

\* ------------------------------------------------- password reset tokens

\* C7: verify_reset_password_token raises nothing; for a token issued to U
\* it returns U before the expiry time and no user from the expiry time on;
\* for a token with a bad signature, a malformed one or one without the
\* reset_password claim it returns no user.
C7_VerifyFailsClosed ==
    last.op = "verify_reset_password_token" =>
        /\ last.result.raised = "none"
        /\ (last.issued /\ last.at < last.token.payload.exp)
                => last.result.user = last.token.payload.reset_password
        /\ (last.issued /\ last.at >= last.token.payload.exp)
                => last.result.user = None
        /\ ~last.issued => last.result.user = None

\* A token issued with the default expiry was verified one second before
\* its expiry and gave its user.
C7_Witness ==
    /\ last.op = "verify_reset_password_token"
    /\ last.issued
    /\ last.result.user # None
    /\ last.at + 1 = last.token.payload.exp
    /\ last.at > DefaultExpiresIn

\* ------------------------------------------------------ api error helper

IsErrorCall ==
    last.op \in {"error_resposne", "bad_request", "handle_exception"}

\* C8: an error response is a pair (body, status): status is the code given,
\* body has 'error' with the status text of the code ('Unknown error' for a
\* code the table does not hold) and has 'message' exactly when a non-empty
\* message was given; handle_exception gives the exception's code and no
\* message.
C8_ErrorResponseShape ==
    IsErrorCall =>
        LET body == last.response[1]
            status == last.response[2]
            given == last.message # None /\ last.message # Some("")
        IN  /\ Len(last.response) = 2
            /\ status = last.status_code
            /\ "error" \in DOMAIN body
            /\ \/ /\ status # None
                  /\ status[1] \in DOMAIN HTTP_STATUS_CODES
                  /\ body.error = HTTP_STATUS_CODES[status[1]]
               \/ /\ status = None \/ status[1] \notin DOMAIN HTTP_STATUS_CODES
                  /\ body.error = "Unknown error"
            /\ ("message" \in DOMAIN body) <=> given
            /\ given => body.message = last.message[1]
            /\ DOMAIN body \subseteq {"error", "message"}
            /\ last.op = "handle_exception" => DOMAIN body = {"error"}
            /\ last.op = "bad_request" => status = Some(400)

\* bad_request was called with the empty string and answered 400 without a
\* message.
C8_Witness ==
    /\ last.op = "bad_request"
    /\ last.message = Some("")
    /\ last.response = <<[error |-> "Bad Request"], Some(400)>>

====
